---- MODULE Spec2Model ----
(***************************************************************************)
(* Model of the Graphiti MCP client (graphiti_mcp_client.py) and of the    *)
(* HTTP adaptation layer (app.py).                                         *)
(*                                                                         *)
(*   Spec         one GraphitiMCPClient object driven by an arbitrary       *)
(*                caller (scope entry/exit and method calls in any order).  *)
(*   SpecHttp     the HTTP handlers of app.py, two requests in flight.      *)
(*   SpecConvert  the pure reply unwrapping _convert_result_to_dict over    *)
(*                a bounded set of replies.                                 *)
(***************************************************************************)
EXTENDS Integers, Sequences, FiniteSets, TLC

\* ------------------------------------------------------------------------
\* Bounds
\* ------------------------------------------------------------------------
\* longest text of a content item
MaxLen == 2
\* most content items in a reply
MaxItems == 2
\* most method invocations on the client object in Spec
MaxCalls == 2
\* most scope entries (async with) of the client object in Spec
MaxEnters == 1

\* ------------------------------------------------------------------------
\* Reply unwrapping
\* ------------------------------------------------------------------------
\* characters of a content item's text
Chars == {"1", "[", "]"}

RECURSIVE SeqsUpTo(_, _)
SeqsUpTo(S, n) ==
    IF n = 0 THEN {<<>>}
    ELSE LET shorter == SeqsUpTo(S, n - 1)
         IN  shorter \cup {Append(s, x) : s \in {t \in shorter : Len(t) = n - 1}, x \in S}

Texts == SeqsUpTo(Chars, MaxLen)

\* A content item: TextContent has a text attribute, the other content
\* types (image, embedded resource) have none.
TextItem(t) == [hasText |-> TRUE, text |-> t]
OtherItem == [hasText |-> FALSE, text |-> <<>>]
Items == {TextItem(t) : t \in Texts} \cup {OtherItem}

\* A reply of call_tool: an object that may lack the content attribute, or
\* carries a (possibly empty) list of at most MaxItems content items.
NoContentReply == [hasContent |-> FALSE, content |-> <<>>]

\* JSON values: numbers and arrays
JNum(n) == [t |-> "num", n |-> n, items |-> <<>>]
JArr(items) == [t |-> "arr", n |-> 0, items |-> items]
JFail == [ok |-> FALSE, val |-> JNum(0), next |-> 0]

\* the dict {"message": text}
MessageDict(text) == [t |-> "dict", message |-> text]
\* the text of the fixed placeholder and of str(x), as one opaque token each
CompletedText == <<"Operation completed successfully">>
StrOfItem == <<"str(content_item)">>

\* end of the run of digits that starts at position i
RECURSIVE DigitsEnd(_, _)
DigitsEnd(s, i) == IF i <= Len(s) /\ s[i] = "1" THEN DigitsEnd(s, i + 1) ELSE i

\* value of a run of k digits "1"
RECURSIVE Ones(_)
Ones(k) == IF k = 0 THEN 0 ELSE 10 * Ones(k - 1) + 1

\* json.loads: the recursive-descent decoder, value starting at position i
RECURSIVE ParseValue(_, _)
ParseValue(s, i) ==
    IF i > Len(s) THEN JFail
    ELSE IF s[i] = "1"
    THEN LET j == DigitsEnd(s, i) IN [ok |-> TRUE, val |-> JNum(Ones(j - i)), next |-> j]
    ELSE IF s[i] = "["
    THEN IF i + 1 <= Len(s) /\ s[i + 1] = "]"
         THEN [ok |-> TRUE, val |-> JArr(<<>>), next |-> i + 2]
         ELSE LET e == ParseValue(s, i + 1)
              IN  IF e.ok /\ e.next <= Len(s) /\ s[e.next] = "]"
                  THEN [ok |-> TRUE, val |-> JArr(<<e.val>>), next |-> e.next + 1]
                  ELSE JFail
    ELSE JFail

\* json.loads(text): the whole text must be one value, else JSONDecodeError
json_loads(text) ==
    LET r == ParseValue(text, 1)
    IN  IF r.ok /\ r.next = Len(text) + 1 THEN [ok |-> TRUE, val |-> r.val]
        ELSE [ok |-> FALSE, val |-> JNum(0)]

\* unwrapping that reads the last content item
convert_last_item(result) ==
    IF result.hasContent /\ Len(result.content) > 0
    THEN LET content_item == result.content[Len(result.content)]
         IN  IF content_item.hasText
             THEN LET parsed == json_loads(content_item.text)
                  IN  IF parsed.ok THEN parsed.val ELSE MessageDict(content_item.text)
             ELSE MessageDict(StrOfItem)
    ELSE MessageDict(CompletedText)

\* _convert_result_to_dict(result)
convert_result_to_dict(result) ==
    IF result.hasContent /\ Len(result.content) > 0
    THEN LET content_item == result.content[1]
         IN  IF content_item.hasText
             THEN LET parsed == json_loads(content_item.text)
                  IN  IF parsed.ok THEN parsed.val ELSE MessageDict(content_item.text)
             ELSE MessageDict(StrOfItem)
    ELSE MessageDict(CompletedText)

\* ------------------------------------------------------------------------
\* Values
\* ------------------------------------------------------------------------
\* the client objects; in SpecHttp request r constructs client r
Clients == {1, 2}
\* the caller-driven client of Spec
Callers == {1}

\* transport kinds a client can be constructed with
Transports == {"sse", "stdio", "websocket"}

\* Python's None, for an optional argument or a field
None == "None"
\* no transport/session pair: session is None, the client attribute is not set
NoPair == <<0, 0>>
\* the pairs (sse_client context manager, ClientSession) a client can create
PairIds == Clients \X (1..MaxEnters)

\* exceptions: a type and a message; str(e) is the message
Exc(type, msg) == [type |-> type, msg |-> msg]
str(e) == e.msg
NoExc == Exc("None", "")
NotInitialized == Exc("RuntimeError", "Client session not initialized")
StdioNotImplemented == Exc("NotImplementedError", "Stdio transport not implemented in this example")
UnsupportedTransport == Exc("ValueError", "Unsupported transport")
\* failures of the transport, the protocol or the server
RemoteErrors == {Exc("ConnectError", "All connection attempts failed"), Exc("McpError", "Internal error")}
\* outcomes of an awaited step on the transport or the session
Ok == NoExc
Outcomes == {Ok} \cup RemoteErrors

\* replies the server gives in Spec and SpecHttp
ServerReplies ==
    { [hasContent |-> TRUE, content |-> <<TextItem(<<"[", "1", "]">>)>>],
      [hasContent |-> TRUE, content |-> <<TextItem(<<"[">>)>>],
      NoContentReply }
\* what the remote does with a request: a reply or a failure
Remotes == {[ok |-> TRUE, reply |-> r, exc |-> NoExc] : r \in ServerReplies}
              \cup {[ok |-> FALSE, reply |-> NoContentReply, exc |-> e] : e \in RemoteErrors}

\* results of a method
Return(v) == [kind |-> "return", value |-> v, exc |-> NoExc]
Raise(e) == [kind |-> "raise", value |-> [t |-> "None"], exc |-> e]
NoneValue == [t |-> "None"]
StatusDict(msg) == [t |-> "dict", status |-> "connected", message |-> msg]
StatusOk == StatusDict(<<"Successfully connected to MCP server">>)
StatusDegraded == StatusDict(<<"Connected to MCP server (resource listing failed)">>)

\* the tool operations of the client
ToolMethods ==
    {"add_memory", "search_memory_nodes", "search_memory_facts", "delete_entity_edge",
     "delete_episode", "get_entity_edge", "get_episodes", "clear_graph"}
Methods == {"initialize", "get_status"} \cup ToolMethods

EmptyDict == [k \in {} |-> None]

\* the arguments a caller passes, None for an optional argument left out
ArgsOf(method) ==
    CASE method = "add_memory" ->
            [name : {"Test Note"}, episode_body : {"body"}, group_id : {None, "g1"},
             source : {"text"}, source_description : {""}, uuid : {None, "u1"}]
      [] method = "search_memory_nodes" ->
            [query : {"example"}, group_ids : {None, "[g1]"}, max_nodes : {10},
             center_node_uuid : {None, "n1"}, entity : {""}]
      [] method = "search_memory_facts" ->
            [query : {"example"}, group_ids : {None, "[g1]"}, max_facts : {10},
             center_node_uuid : {None, "n1"}]
      [] method \in {"delete_entity_edge", "delete_episode", "get_entity_edge"} ->
            [uuid : {"u1"}]
      [] method = "get_episodes" -> [group_id : {None, "g1"}, last_n : {10}]
      [] OTHER -> {EmptyDict}

\* the dict of the keys present
Dict(keys, f) == [k \in keys |-> f[k]]

\* the parameter mapping each tool operation hands to call_tool
add_memory_params(a) ==
    Dict({"name", "episode_body", "group_id", "source", "source_description", "uuid"}, a)

search_memory_nodes_params(a) ==
    Dict({"query", "max_nodes", "entity"}
            \cup (IF a.group_ids # None THEN {"group_ids"} ELSE {})
            \cup (IF a.center_node_uuid # None THEN {"center_node_uuid"} ELSE {}), a)

search_memory_facts_params(a) ==
    Dict({"query", "max_facts"}
            \cup (IF a.group_ids # None THEN {"group_ids"} ELSE {})
            \cup (IF a.center_node_uuid # None THEN {"center_node_uuid"} ELSE {}), a)

get_episodes_params(a) ==
    Dict({"last_n"} \cup (IF a.group_id # None THEN {"group_id"} ELSE {}), a)

uuid_params(a) == Dict({"uuid"}, a)

Params(method, a) ==
    CASE method = "add_memory" -> add_memory_params(a)
      [] method = "search_memory_nodes" -> search_memory_nodes_params(a)
      [] method = "search_memory_facts" -> search_memory_facts_params(a)
      [] method = "get_episodes" -> get_episodes_params(a)
      [] method = "clear_graph" -> EmptyDict
      [] OTHER -> uuid_params(a)

\* the tool name literal each tool operation hands to call_tool
ToolName(method) == method

\* the requests in flight; request r runs its handler on client r
Requests == Clients
Routes == {"/api/status", "/api/add_memory", "/api/search_nodes", "/api/search_facts", "/api/get_episodes"}
\* request.get_json() gave no mapping
NoJson == [nojson |-> TRUE]
NoneHasNoGet == Exc("AttributeError", "'NoneType' object has no attribute 'get'")
NoResponse == [status |-> 0]
\* the event loops: run_async makes one per call, and each request calls it once
LoopIds == Requests
NoLoop == 0

\* requests on a session
NoRequest == [req |-> "none"]
CallTool(name, params) == [req |-> "call_tool", name |-> name, params |-> params]

\* ------------------------------------------------------------------------
\* State
\* ------------------------------------------------------------------------
VARIABLES
    transport,  \* client -> self.transport
    session,    \* client -> self.session: the pair whose ClientSession it holds, or NoPair
    client,     \* client -> self.client: the pair whose sse_client it holds, or NoPair
    pairs,      \* pair -> state of its transport and of its session
    log,        \* pair -> what was done on the pair, in order, and by which client
    scope,      \* client -> "out" or "in": is the caller inside the async with body
    enters,     \* client -> number of __aenter__ calls
    calls,      \* client -> number of method invocations
    last,       \* client -> the last method invocation and its outcome
    scopeExc,   \* client -> the exception the last async with statement ended with
    pc,         \* request -> where its handler stands
    route,      \* request -> the route it came in on
    kwargs,     \* request -> the fields the handler took from the JSON body
    held,       \* request -> what the handler's try block has ended with
    response,   \* request -> the response returned
    loop,       \* request -> the event loop its run_async made, or NoLoop
    loops,      \* event loop -> its state and the requests whose handler it has run
    closing,    \* Spec: client -> what its __aexit__ was given and which close steps failed, if it was the last step
    reply,      \* SpecConvert: the reply handed to _convert_result_to_dict
    converted   \* SpecConvert: its return value, once applied

clientVars == <<transport, session, client, pairs, log, scope, enters, calls, last, scopeExc>>
httpVars == <<pc, route, kwargs, held, response, loop, loops>>
convertVars == <<reply, converted>>
vars == <<clientVars, httpVars, convertVars, closing>>

NotConverted == [t |-> "pending"]
NoPairState == [transport |-> "none", session |-> "none", handshake |-> FALSE]
NoClosing == [exc |-> NoExc, failed |-> {}]
NoCall == [method |-> "none", args |-> EmptyDict, sent |-> NoRequest, remote |-> NoExc, out |-> Return(NoneValue)]

\* state after GraphitiMCPClient(transport, server_url)
InitFields ==
    /\ session = [c \in Clients |-> NoPair]
    /\ client = [c \in Clients |-> NoPair]
    /\ pairs = [p \in PairIds |-> NoPairState]
    /\ log = [p \in PairIds |-> <<>>]
    /\ scope = [c \in Clients |-> "out"]
    /\ enters = [c \in Clients |-> 0]
    /\ calls = [c \in Clients |-> 0]
    /\ last = [c \in Clients |-> NoCall]
    /\ scopeExc = [c \in Clients |-> NoExc]

\* no request has come in
InitHttp ==
    /\ pc = [r \in Requests |-> "idle"]
    /\ route = [r \in Requests |-> "none"]
    /\ kwargs = [r \in Requests |-> EmptyDict]
    /\ held = [r \in Requests |-> Return(NoneValue)]
    /\ response = [r \in Requests |-> NoResponse]
    /\ closing = [c \in Clients |-> NoClosing]
    /\ loop = [r \in Requests |-> NoLoop]
    /\ loops = [l \in LoopIds |-> [state |-> "none", ran |-> {}]]

InitClients ==
    /\ \E t \in Transports : transport = [c \in Clients |-> t]
    /\ InitFields

Init ==
    /\ InitClients
    /\ InitHttp
    /\ reply = NoContentReply
    /\ converted = NotConverted

InitConvert ==
    /\ transport = [c \in Clients |-> "sse"]
    /\ InitFields
    /\ InitHttp
    /\ \E n \in 0..MaxItems : \E content \in [1..n -> Items], has \in BOOLEAN :
            reply = [hasContent |-> has, content |-> IF has THEN content ELSE <<>>]
    /\ converted = NotConverted

Convert ==
    /\ converted = NotConverted
    /\ converted' = convert_result_to_dict(reply)
    /\ UNCHANGED <<reply, clientVars, httpVars, closing>>

NextConvert == Convert

SpecConvert == InitConvert /\ [][NextConvert]_vars

\* ------------------------------------------------------------------------
\* GraphitiMCPClient
\* ------------------------------------------------------------------------
Event(c, what) == [by |-> c, what |-> what]

\* the pair __aenter__ creates: sse_client(...) and ClientSession(...) are new objects
NewPair(c) == <<c, enters[c] + 1>>

\* __aenter__; tOut and sOut are the outcomes of entering the transport and the session
aenter(c, tOut, sOut) ==
    /\ enters' = [enters EXCEPT ![c] = @ + 1]
    /\ UNCHANGED <<transport, calls, last>>
    /\ IF transport[c] = "sse"
       THEN LET p == NewPair(c)
            IN  /\ client' = [client EXCEPT ![c] = p]
                /\ IF tOut # Ok
                   THEN /\ pairs' = [pairs EXCEPT ![p].transport = "failed"]
                        /\ log' = [log EXCEPT ![p] = Append(@, Event(c, "transport_enter"))]
                        /\ scopeExc' = [scopeExc EXCEPT ![c] = tOut]
                        /\ UNCHANGED <<session, scope>>
                   ELSE /\ session' = [session EXCEPT ![c] = p]
                        /\ log' = [log EXCEPT ![p] = @ \o <<Event(c, "transport_enter"), Event(c, "session_enter")>>]
                        /\ IF sOut # Ok
                           THEN /\ pairs' = [pairs EXCEPT ![p] = [transport |-> "open", session |-> "failed", handshake |-> FALSE]]
                                /\ scopeExc' = [scopeExc EXCEPT ![c] = sOut]
                                /\ UNCHANGED scope
                           ELSE /\ pairs' = [pairs EXCEPT ![p] = [transport |-> "open", session |-> "open", handshake |-> FALSE]]
                                /\ scopeExc' = [scopeExc EXCEPT ![c] = NoExc]
                                /\ scope' = [scope EXCEPT ![c] = "in"]
       ELSE /\ scopeExc' = [scopeExc EXCEPT ![c] =
                                IF transport[c] = "stdio" THEN StdioNotImplemented ELSE UnsupportedTransport]
            /\ UNCHANGED <<session, client, pairs, log, scope>>

\* __aexit__ that lets a failure of session.__aexit__ out: the transport is
\* not closed and the failure takes the place of exc
aexit_raises_close_error(c, exc, sOut, tOut) ==
    LET s == session[c]
        t == client[c]
        afterSession ==
            IF s # NoPair THEN [pairs EXCEPT ![s].session = "closed"] ELSE pairs
        logSession ==
            IF s # NoPair THEN [log EXCEPT ![s] = Append(@, Event(c, "session_exit"))] ELSE log
        goesOn == sOut = Ok
    IN  /\ pairs' = IF t # NoPair /\ goesOn THEN [afterSession EXCEPT ![t].transport = "closed"] ELSE afterSession
        /\ log' = IF t # NoPair /\ goesOn THEN [logSession EXCEPT ![t] = Append(@, Event(c, "transport_exit"))] ELSE logSession
        /\ scope' = [scope EXCEPT ![c] = "out"]
        /\ scopeExc' = [scopeExc EXCEPT ![c] = IF goesOn THEN exc ELSE sOut]
        /\ UNCHANGED <<transport, session, client, enters, calls, last>>

\* __aexit__(exc); sOut and tOut are the outcomes of closing the session and
\* the transport.  Either failure is logged and swallowed, and the method
\* returns None, so exc leaves the async with statement.
aexit(c, exc, sOut, tOut) ==
    LET s == session[c]
        t == client[c]
        afterSession ==
            IF s # NoPair THEN [pairs EXCEPT ![s].session = "closed"] ELSE pairs
        logSession ==
            IF s # NoPair THEN [log EXCEPT ![s] = Append(@, Event(c, "session_exit"))] ELSE log
    IN  /\ pairs' = IF t # NoPair THEN [afterSession EXCEPT ![t].transport = "closed"] ELSE afterSession
        /\ log' = IF t # NoPair THEN [logSession EXCEPT ![t] = Append(@, Event(c, "transport_exit"))] ELSE logSession
        /\ scope' = [scope EXCEPT ![c] = "out"]
        /\ scopeExc' = [scopeExc EXCEPT ![c] = exc]
        /\ UNCHANGED <<transport, session, client, enters, calls, last>>

\* a reply can only come from a session that is open
CanReply(c, remote) == remote.ok => (session[c] # NoPair /\ pairs[session[c]].session = "open")

Invoked(c, method, args, sent, remote, out) ==
    /\ last' = [last EXCEPT ![c] = [method |-> method, args |-> args, sent |-> sent,
                                    remote |-> remote, out |-> out]]
    /\ calls' = [calls EXCEPT ![c] = @ + 1]
    /\ UNCHANGED <<transport, session, client, scope, enters, scopeExc>>

\* initialize()
initialize(c, remote) ==
    IF session[c] = NoPair
    THEN /\ Invoked(c, "initialize", EmptyDict, NoRequest, NoExc, Raise(NotInitialized))
         /\ UNCHANGED <<pairs, log>>
    ELSE /\ log' = [log EXCEPT ![session[c]] = Append(@, Event(c, "initialize"))]
         /\ pairs' = [pairs EXCEPT ![session[c]].handshake = @ \/ remote.ok]
         /\ Invoked(c, "initialize", EmptyDict, [req |-> "initialize"], remote.exc,
                    IF remote.ok THEN Return(NoneValue) ELSE Raise(remote.exc))

\* get_status that lets the failure of list_resources through
get_status_reraise(c, remote) ==
    IF session[c] = NoPair
    THEN /\ Invoked(c, "get_status", EmptyDict, NoRequest, NoExc, Raise(NotInitialized))
         /\ UNCHANGED <<pairs, log>>
    ELSE /\ log' = [log EXCEPT ![session[c]] = Append(@, Event(c, "list_resources"))]
         /\ Invoked(c, "get_status", EmptyDict, [req |-> "list_resources"], remote.exc,
                    IF remote.ok THEN Return(StatusOk) ELSE Raise(remote.exc))
         /\ UNCHANGED pairs

\* get_status()
get_status(c, remote) ==
    IF session[c] = NoPair
    THEN /\ Invoked(c, "get_status", EmptyDict, NoRequest, NoExc, Raise(NotInitialized))
         /\ UNCHANGED <<pairs, log>>
    ELSE /\ log' = [log EXCEPT ![session[c]] = Append(@, Event(c, "list_resources"))]
         /\ Invoked(c, "get_status", EmptyDict, [req |-> "list_resources"], remote.exc,
                    IF remote.ok THEN Return(StatusOk) ELSE Return(StatusDegraded))
         /\ UNCHANGED pairs

\* tool without the check of self.session
tool_unguarded(c, method, args, remote) ==
    /\ log' = IF session[c] = NoPair THEN log
              ELSE [log EXCEPT ![session[c]] = Append(@, Event(c, "call_tool"))]
    /\ Invoked(c, method, args, CallTool(ToolName(method), Params(method, args)), remote.exc,
               IF remote.ok THEN Return(convert_result_to_dict(remote.reply))
               ELSE Raise(remote.exc))
    /\ UNCHANGED pairs

\* tool that also refuses a session whose handshake is not done
tool_requires_handshake(c, method, args, remote) ==
    IF session[c] = NoPair \/ ~pairs[session[c]].handshake
    THEN /\ Invoked(c, method, args, NoRequest, NoExc, Raise(NotInitialized))
         /\ UNCHANGED <<pairs, log>>
    ELSE /\ log' = [log EXCEPT ![session[c]] = Append(@, Event(c, "call_tool"))]
         /\ Invoked(c, method, args, CallTool(ToolName(method), Params(method, args)), remote.exc,
                    IF remote.ok THEN Return(convert_result_to_dict(remote.reply))
                    ELSE Raise(remote.exc))
         /\ UNCHANGED pairs

\* tool that sends the request once more when it failed
tool_retry(c, method, args, remote) ==
    IF session[c] = NoPair
    THEN /\ Invoked(c, method, args, NoRequest, NoExc, Raise(NotInitialized))
         /\ UNCHANGED <<pairs, log>>
    ELSE /\ log' = [log EXCEPT ![session[c]] =
                        IF remote.ok THEN Append(@, Event(c, "call_tool"))
                        ELSE @ \o <<Event(c, "call_tool"), Event(c, "call_tool")>>]
         /\ Invoked(c, method, args, CallTool(ToolName(method), Params(method, args)), remote.exc,
                    IF remote.ok THEN Return(convert_result_to_dict(remote.reply))
                    ELSE Raise(remote.exc))
         /\ UNCHANGED pairs

\* tool that turns a failure into an error mapping
tool_error_dict(c, method, args, remote) ==
    IF session[c] = NoPair
    THEN /\ Invoked(c, method, args, NoRequest, NoExc, Raise(NotInitialized))
         /\ UNCHANGED <<pairs, log>>
    ELSE /\ log' = [log EXCEPT ![session[c]] = Append(@, Event(c, "call_tool"))]
         /\ Invoked(c, method, args, CallTool(ToolName(method), Params(method, args)), remote.exc,
                    IF remote.ok THEN Return(convert_result_to_dict(remote.reply))
                    ELSE Return([t |-> "dict", error |-> str(remote.exc)]))
         /\ UNCHANGED pairs

\* add_memory, search_memory_nodes, search_memory_facts, delete_entity_edge,
\* delete_episode, get_entity_edge, get_episodes, clear_graph
tool(c, method, args, remote) ==
    IF session[c] = NoPair
    THEN /\ Invoked(c, method, args, NoRequest, NoExc, Raise(NotInitialized))
         /\ UNCHANGED <<pairs, log>>
    ELSE /\ log' = [log EXCEPT ![session[c]] = Append(@, Event(c, "call_tool"))]
         /\ Invoked(c, method, args, CallTool(ToolName(method), Params(method, args)), remote.exc,
                    IF remote.ok THEN Return(convert_result_to_dict(remote.reply))
                    ELSE Raise(remote.exc))
         /\ UNCHANGED pairs

\* ------------------------------------------------------------------------
\* Spec: a caller drives one client object
\* ------------------------------------------------------------------------
\* async with client: __aenter__
Enter(c) ==
    /\ scope[c] = "out"
    /\ enters[c] < MaxEnters
    /\ \E tOut \in Outcomes, sOut \in Outcomes : aenter(c, tOut, sOut)
    /\ closing' = [k \in Clients |-> NoClosing]
    /\ UNCHANGED <<httpVars, convertVars>>

\* what the body of the async with can end with: nothing, the failure of its
\* last method call, or a failure of its own
BodyError == Exc("KeyError", "episodes")
BodyEnds(c) == {NoExc, BodyError} \cup (IF last[c].out.kind = "raise" THEN {last[c].out.exc} ELSE {})

\* the body of the async with ends: __aexit__
Exit(c) ==
    /\ scope[c] = "in"
    /\ \E exc \in BodyEnds(c), sOut \in Outcomes, tOut \in Outcomes :
            /\ aexit(c, exc, sOut, tOut)
            /\ closing' = [k \in Clients |-> IF k = c THEN [exc |-> exc, failed |-> {x \in {"session"} : sOut # Ok} \cup {x \in {"transport"} : tOut # Ok}] ELSE NoClosing]
    /\ UNCHANGED <<httpVars, convertVars>>

CallInitialize(c) ==
    /\ calls[c] < MaxCalls
    /\ \E remote \in Remotes : CanReply(c, remote) /\ initialize(c, remote)
    /\ closing' = [k \in Clients |-> NoClosing]
    /\ UNCHANGED <<httpVars, convertVars>>

CallGetStatus(c) ==
    /\ calls[c] < MaxCalls
    /\ \E remote \in Remotes : CanReply(c, remote) /\ get_status(c, remote)
    /\ closing' = [k \in Clients |-> NoClosing]
    /\ UNCHANGED <<httpVars, convertVars>>

CallTool_(c) ==
    /\ calls[c] < MaxCalls
    /\ \E method \in ToolMethods : \E args \in ArgsOf(method), remote \in Remotes :
            CanReply(c, remote) /\ tool(c, method, args, remote)
    /\ closing' = [k \in Clients |-> NoClosing]
    /\ UNCHANGED <<httpVars, convertVars>>

Next ==
    \E c \in Callers :
        \/ Enter(c)
        \/ Exit(c)
        \/ CallInitialize(c)
        \/ CallGetStatus(c)
        \/ CallTool_(c)

Spec == Init /\ [][Next]_vars

\* ------------------------------------------------------------------------
\* app.py: the HTTP handlers
\* ------------------------------------------------------------------------
\* the JSON bodies a request can carry on each route
BodiesOf(rt) ==
    CASE rt = "/api/add_memory" ->
            { [name |-> "Example Note", episode_body |-> "body"],
              [name |-> "Example Note", episode_body |-> "body", group_id |-> "g1"],
              [name |-> "Example Note", episode_body |-> "body", source |-> "json", uuid |-> "u1"] }
      [] rt = "/api/search_nodes" ->
            { [query |-> "example", max_nodes |-> 5],
              [query |-> "example", group_ids |-> "[g1]", center_node_uuid |-> "n1"] }
      [] rt = "/api/search_facts" ->
            { [query |-> "example"],
              [query |-> "example", max_facts |-> 5, group_ids |-> "[g1]"] }
      [] rt = "/api/get_episodes" ->
            { [last_n |-> 1], [group_id |-> "g1"] }
      [] OTHER -> {EmptyDict}

\* data.get(key, default)
get(data, key, default) == IF key \in DOMAIN data THEN data[key] ELSE default

\* the keyword arguments each handler takes from the body
HandlerArgs(rt, data) ==
    CASE rt = "/api/add_memory" ->
            [name |-> get(data, "name", ""), episode_body |-> get(data, "episode_body", ""),
             source |-> get(data, "source", "text"),
             source_description |-> get(data, "source_description", ""),
             group_id |-> get(data, "group_id", None), uuid |-> get(data, "uuid", None)]
      [] rt = "/api/search_nodes" ->
            [query |-> get(data, "query", ""), group_ids |-> get(data, "group_ids", None),
             max_nodes |-> get(data, "max_nodes", 10),
             center_node_uuid |-> get(data, "center_node_uuid", None),
             entity |-> get(data, "entity", "")]
      [] rt = "/api/search_facts" ->
            [query |-> get(data, "query", ""), group_ids |-> get(data, "group_ids", None),
             max_facts |-> get(data, "max_facts", 10),
             center_node_uuid |-> get(data, "center_node_uuid", None)]
      [] rt = "/api/get_episodes" ->
            [group_id |-> get(data, "group_id", None), last_n |-> get(data, "last_n", 10)]
      [] OTHER -> EmptyDict

\* handlers with /api/get_episodes awaiting clear_graph
HandlerMethod_clear(rt) ==
    CASE rt = "/api/status" -> "get_status"
      [] rt = "/api/add_memory" -> "add_memory"
      [] rt = "/api/search_nodes" -> "search_memory_nodes"
      [] rt = "/api/search_facts" -> "search_memory_facts"
      [] rt = "/api/get_episodes" -> "clear_graph"

\* the client method each handler awaits after initialize()
HandlerMethod(rt) ==
    CASE rt = "/api/status" -> "get_status"
      [] rt = "/api/add_memory" -> "add_memory"
      [] rt = "/api/search_nodes" -> "search_memory_nodes"
      [] rt = "/api/search_facts" -> "search_memory_facts"
      [] rt = "/api/get_episodes" -> "get_episodes"

\* a handler whose except clause forgets the status code
HandlerResponse_no_status(h) ==
    IF h.kind = "return" THEN [status |-> 200, body |-> h.value]
    ELSE [status |-> 200, body |-> [t |-> "dict", error |-> str(h.exc)]]

\* return jsonify(result)  /  except Exception as e: return jsonify({'error': str(e)}), 500
HandlerResponse(h) ==
    IF h.kind = "return" THEN [status |-> 200, body |-> h.value]
    ELSE [status |-> 500, body |-> [t |-> "dict", error |-> str(h.exc)]]

\* a single loop kept for every call of run_async
shared_event_loop(r) == 1

\* asyncio.new_event_loop(): a loop of its own for the call
new_event_loop(r) == r

\* run_async up to run_until_complete: the new loop starts running the handler
run_async(r) ==
    LET l == new_event_loop(r)
    IN  /\ loop' = [loop EXCEPT ![r] = l]
        /\ loops' = [loops EXCEPT ![l] = [state |-> "running", ran |-> @.ran \cup {r}]]

\* run_async, finally: loop.close()
run_async_finally(r) ==
    /\ loops' = [loops EXCEPT ![loop[r]].state = "closed"]
    /\ UNCHANGED loop

\* a request comes in: run_async starts the handler on its loop, and the
\* handler reads the body up to its first await
HttpReceive(r) ==
    /\ pc[r] = "idle"
    /\ run_async(r)
    /\ \E rt \in Routes : \E data \in BodiesOf(rt) \cup (IF rt = "/api/status" THEN {} ELSE {NoJson}) :
        /\ route' = [route EXCEPT ![r] = rt]
        /\ IF data = NoJson
           THEN /\ held' = [held EXCEPT ![r] = Raise(NoneHasNoGet)]
                /\ pc' = [pc EXCEPT ![r] = "respond"]
                /\ UNCHANGED kwargs
           ELSE /\ kwargs' = [kwargs EXCEPT ![r] = HandlerArgs(rt, data)]
                /\ pc' = [pc EXCEPT ![r] = "enter"]
                /\ UNCHANGED held
    /\ UNCHANGED <<clientVars, response, convertVars, closing>>

\* async with GraphitiMCPClient(...) as client: a failure of __aenter__ goes
\* to the handler's except clause, __aexit__ is not called
HttpEnter(r) ==
    /\ pc[r] = "enter"
    /\ \E tOut \in Outcomes, sOut \in Outcomes : aenter(r, tOut, sOut)
    /\ IF scope'[r] = "in"
       THEN pc' = [pc EXCEPT ![r] = "initialize"] /\ UNCHANGED held
       ELSE pc' = [pc EXCEPT ![r] = "respond"] /\ held' = [held EXCEPT ![r] = Raise(scopeExc'[r])]
    /\ UNCHANGED <<route, kwargs, response, loop, loops, convertVars, closing>>

\* await client.initialize()
HttpInitialize(r) ==
    /\ pc[r] = "initialize"
    /\ \E remote \in Remotes : CanReply(r, remote) /\ initialize(r, remote)
    /\ IF last'[r].out.kind = "return"
       THEN pc' = [pc EXCEPT ![r] = "operate"] /\ UNCHANGED held
       ELSE pc' = [pc EXCEPT ![r] = "exit"] /\ held' = [held EXCEPT ![r] = last'[r].out]
    /\ UNCHANGED <<route, kwargs, response, loop, loops, convertVars, closing>>

\* the operation with a deadline on its awaited step: a step that has not
\* replied is given up and the request goes on with a TimeoutError
HttpOperate_timeout(r) ==
    \/ /\ pc[r] = "operate"
       /\ \E remote \in Remotes :
           /\ CanReply(r, remote)
           /\ IF HandlerMethod(route[r]) = "get_status"
              THEN get_status(r, remote)
              ELSE tool(r, HandlerMethod(route[r]), kwargs[r], remote)
       /\ held' = [held EXCEPT ![r] = last'[r].out]
       /\ pc' = [pc EXCEPT ![r] = "exit"]
       /\ UNCHANGED <<route, kwargs, response, loop, loops, convertVars, closing>>
    \/ /\ pc[r] = "hung_operate"
       /\ held' = [held EXCEPT ![r] = Raise(Exc("TimeoutError", ""))]
       /\ pc' = [pc EXCEPT ![r] = "exit"]
       /\ UNCHANGED <<clientVars, route, kwargs, response, loop, loops, convertVars, closing>>

\* result = await client.<method>(...)
HttpOperate(r) ==
    /\ pc[r] = "operate"
    /\ \E remote \in Remotes :
        /\ CanReply(r, remote)
        /\ IF HandlerMethod(route[r]) = "get_status"
           THEN get_status(r, remote)
           ELSE tool(r, HandlerMethod(route[r]), kwargs[r], remote)
    /\ held' = [held EXCEPT ![r] = last'[r].out]
    /\ pc' = [pc EXCEPT ![r] = "exit"]
    /\ UNCHANGED <<route, kwargs, response, loop, loops, convertVars, closing>>

\* control leaves the async with block: __aexit__
HttpExit(r) ==
    /\ pc[r] = "exit"
    /\ \E sOut \in Outcomes, tOut \in Outcomes : aexit(r, held[r].exc, sOut, tOut)
    /\ pc' = [pc EXCEPT ![r] = "respond"]
    /\ UNCHANGED <<route, kwargs, held, response, loop, loops, convertVars, closing>>

\* the handler returns its response and run_async closes the loop
HttpRespond(r) ==
    /\ pc[r] = "respond"
    /\ run_async_finally(r)
    /\ response' = [response EXCEPT ![r] = HandlerResponse(held[r])]
    /\ pc' = [pc EXCEPT ![r] = "done"]
    /\ UNCHANGED <<clientVars, route, kwargs, held, convertVars, closing>>

NextHttp ==
    \E r \in Requests :
        \/ HttpReceive(r)
        \/ HttpEnter(r)
        \/ HttpInitialize(r)
        \/ HttpOperate(r)
        \/ HttpExit(r)
        \/ HttpRespond(r)

SpecHttp == Init /\ [][NextHttp]_vars

\* the awaited remote steps of a request: entering the client (transport
\* open, session open), initialize, and the operation (list_resources or
\* call_tool)
AwaitPoints == {"enter", "initialize", "operate"}
HungAt(at) == "hung_" \o at
Hung(r) == pc[r] \in {HungAt(at) : at \in AwaitPoints}

\* an awaited remote step of request r never replies. Nothing bounds the
\* await, so the coroutine stays suspended in it. In __aenter__ the step is
\* either the transport's __aenter__ (nothing is held yet) or the session's
\* (the transport is open by then).
Hang(r) ==
    /\ pc[r] \in AwaitPoints
    /\ pc' = [pc EXCEPT ![r] = HungAt(pc[r])]
    /\ \/ UNCHANGED clientVars
       \/ /\ pc[r] = "enter"
          /\ transport[r] = "sse"
          /\ LET p == NewPair(r)
             IN  /\ client' = [client EXCEPT ![r] = p]
                 /\ session' = [session EXCEPT ![r] = p]
                 /\ pairs' = [pairs EXCEPT ![p] = [transport |-> "open", session |-> "entering", handshake |-> FALSE]]
                 /\ log' = [log EXCEPT ![p] = @ \o <<Event(r, "transport_enter"), Event(r, "session_enter")>>]
                 /\ enters' = [enters EXCEPT ![r] = @ + 1]
          /\ UNCHANGED <<transport, scope, calls, last, scopeExc>>
    /\ UNCHANGED <<route, kwargs, held, response, loop, loops, convertVars, closing>>

NextHttpLive ==
    \E r \in Requests :
        \/ HttpReceive(r)
        \/ HttpEnter(r)
        \/ HttpInitialize(r)
        \/ HttpOperate(r)
        \/ HttpExit(r)
        \/ HttpRespond(r)
        \/ Hang(r)

\* run_until_complete drives the handler's coroutine: a step that is not
\* awaiting the server is taken, and an awaited step that does not hang
\* replies or fails
SpecHttpLive ==
    /\ Init
    /\ [][NextHttpLive]_vars
    /\ \A r \in Requests :
        /\ WF_vars(HttpEnter(r))
        /\ WF_vars(HttpInitialize(r))
        /\ WF_vars(HttpOperate(r))
        /\ WF_vars(HttpExit(r))
        /\ WF_vars(HttpRespond(r))

\* ------------------------------------------------------------------------
\* C5
\* ------------------------------------------------------------------------
\* JSON texts, independently of the decoder: the serialisation of a value
RECURSIVE Dumps(_)
Dumps(v) ==
    IF v.t = "num" THEN [i \in 1..(CHOOSE k \in 0..(MaxLen + 2) : Ones(k) = v.n) |-> "1"]
    ELSE IF Len(v.items) = 0 THEN <<"[", "]">>
    ELSE <<"[">> \o Dumps(v.items[1]) \o <<"]">>

RECURSIVE JValues(_)
JValues(d) ==
    IF d = 0 THEN {}
    ELSE {JNum(Ones(k)) : k \in 1..d} \cup {JArr(<<>>)} \cup {JArr(<<v>>) : v \in JValues(d - 1)}

\* the value a text denotes, if any
Denotes(text) == {v \in JValues(MaxLen + 1) : Dumps(v) = text}

\* C5: the unwrapped result is decided by the first content item alone: the
\* value its text denotes when the text is JSON, {message: text} when it is
\* not, and the fixed placeholder when the reply has no content.
C5_Unwrap ==
    converted # NotConverted =>
        IF ~reply.hasContent \/ Len(reply.content) = 0
        THEN converted = MessageDict(CompletedText)
        ELSE LET first == reply.content[1]
             IN  first.hasText =>
                    IF Denotes(first.text) # {}
                    THEN converted \in Denotes(first.text)
                    ELSE converted = MessageDict(first.text)

\* a reply of two items, the first not JSON and the second JSON, unwrapped
C5_Witness ==
    /\ converted # NotConverted
    /\ reply.hasContent /\ Len(reply.content) = 2
    /\ reply.content[1].hasText /\ reply.content[1].text = <<"[", "1">>
    /\ reply.content[2].hasText /\ reply.content[2].text = <<"[", "]">>
    /\ converted = MessageDict(<<"[", "1">>)

\* a JSON first item is returned as the parsed structure
C5_WitnessJson ==
    /\ converted = JNum(11)
    /\ reply.hasContent /\ Len(reply.content) > 0
    /\ reply.content[1].text = <<"1", "1">>
\* ------------------------------------------------------------------------
\* C1
\* ------------------------------------------------------------------------
\* a method of client c is invoked in this step
Invoking(c) == calls'[c] = calls[c] + 1

\* C1: on a client whose session field is unset, every method fails with
\* "Client session not initialized", sends nothing on any session and
\* leaves the fields of the client and every transport/session pair as
\* they were.
C1_UnsetSessionFails ==
    [][\A c \in Clients :
        (Invoking(c) /\ session[c] = NoPair) =>
            /\ last'[c].method \in Methods
            /\ last'[c].out = Raise(NotInitialized)
            /\ last'[c].sent = NoRequest
            /\ log' = log /\ pairs' = pairs
            /\ <<transport, session, client>>' = <<transport, session, client>>]_vars

\* clear_graph was called on a client that was never entered
C1_Witness ==
    /\ enters[1] = 0 /\ session[1] = NoPair
    /\ last[1].method = "clear_graph"
    /\ last[1].out = Raise(NotInitialized)

\* ------------------------------------------------------------------------
\* C2
\* ------------------------------------------------------------------------
HandshakeDone(c) == session[c] # NoPair /\ pairs[session[c]].handshake

\* C2 as stated: a tool operation called before initialize() has completed
\* the handshake fails with the "not initialized" error and sends no
\* call_tool.
C2_NoToolCallBeforeHandshake ==
    [][\A c \in Clients :
        (Invoking(c) /\ last'[c].method \in ToolMethods /\ ~HandshakeDone(c)) =>
            /\ last'[c].out = Raise(NotInitialized)
            /\ last'[c].sent = NoRequest
            /\ log' = log]_vars

\* C2 as amended: a tool operation fails with the "not initialized" error
\* and sends no call_tool exactly when the session field is unset; once
\* scope entry has set the field the call_tool is sent, whether or not the
\* handshake has completed.
C2_ToolCallNeedsSessionOnly ==
    [][\A c \in Clients :
        (Invoking(c) /\ last'[c].method \in ToolMethods) =>
            IF session[c] = NoPair
            THEN last'[c].out = Raise(NotInitialized) /\ last'[c].sent = NoRequest /\ log' = log
            ELSE /\ last'[c].sent.req = "call_tool"
                 /\ log'[session[c]] = Append(log[session[c]], Event(c, "call_tool"))
                 /\ last'[c].out # Raise(NotInitialized)]_vars

\* a call_tool went out on an entered session whose handshake was never done
C2_Witness ==
    /\ scope[1] = "in"
    /\ ~pairs[session[1]].handshake
    /\ last[1].method \in ToolMethods
    /\ last[1].sent.req = "call_tool"
    /\ last[1].out.kind = "return"

\* ------------------------------------------------------------------------
\* C3
\* ------------------------------------------------------------------------
PairsOf(c) == {p \in PairIds : p[1] = c}
Released(p) == pairs[p].transport # "open" /\ pairs[p].session # "open"

\* C3: whenever control is outside the scope, every transport and session
\* the client opened during entry has been closed.
C3_ScopeReleasesAll ==
    \A c \in Clients : scope[c] = "out" => \A p \in PairsOf(c) : Released(p)

\* ------------------------------------------------------------------------
\* C4
\* ------------------------------------------------------------------------
OptionalArgs(method) ==
    CASE method = "add_memory" -> {"group_id", "uuid"}
      [] method \in {"search_memory_nodes", "search_memory_facts"} -> {"group_ids", "center_node_uuid"}
      [] method = "get_episodes" -> {"group_id"}
      [] OTHER -> {}

\* C4: in the parameter mapping sent with call_tool an optional argument
\* the caller left out is absent as a key, and one the caller supplied is
\* present with its value.
C4_OmittedOptionalsAbsent ==
    \A c \in Clients :
        last[c].sent.req = "call_tool" =>
            \A k \in OptionalArgs(last[c].method) :
                IF last[c].args[k] = None
                THEN k \notin DOMAIN last[c].sent.params
                ELSE k \in DOMAIN last[c].sent.params /\ last[c].sent.params[k] = last[c].args[k]

\* ------------------------------------------------------------------------
\* C6
\* ------------------------------------------------------------------------
\* C6 as stated: in every client state get_status returns a mapping whose
\* status is "connected" and never raises.
C6_GetStatusNeverRaises ==
    \A c \in Clients :
        last[c].method = "get_status" =>
            last[c].out.kind = "return" /\ last[c].out.value.status = "connected"

\* C6 as amended: on a client whose session field is set get_status never
\* raises: whether the resource listing succeeds or fails it returns a
\* mapping whose status is "connected", with the degraded message when the
\* listing failed.
C6_GetStatusOnSessionNeverRaises ==
    [][\A c \in Clients :
        (Invoking(c) /\ last'[c].method = "get_status" /\ session[c] # NoPair) =>
            /\ last'[c].sent = [req |-> "list_resources"]
            /\ last'[c].out.kind = "return"
            /\ last'[c].out.value.status = "connected"
            /\ (last'[c].remote \in RemoteErrors => last'[c].out.value = StatusDegraded)
            /\ (last'[c].remote = NoExc => last'[c].out.value = StatusOk)]_vars

\* the resource listing failed and get_status returned the degraded status
C6_Witness ==
    /\ last[1].method = "get_status"
    /\ last[1].remote \in RemoteErrors
    /\ last[1].out = Return(StatusDegraded)

\* ------------------------------------------------------------------------
\* C7
\* ------------------------------------------------------------------------
\* C7: an invocation of a tool operation on a client whose session is set
\* puts exactly one request on that session, a call_tool under the name of
\* the operation, and nothing on any other session, whether it succeeds or
\* fails.
C7_OneCallToolPerInvocation ==
    [][\A c \in Clients :
        (Invoking(c) /\ last'[c].method \in ToolMethods /\ session[c] # NoPair) =>
            /\ log'[session[c]] = Append(log[session[c]], Event(c, "call_tool"))
            /\ \A p \in PairIds \ {session[c]} : log'[p] = log[p]
            /\ last'[c].sent.req = "call_tool"
            /\ last'[c].sent.name = last'[c].method]_vars

\* a delete_episode call failed, with one call_tool on the session
C7_Witness ==
    /\ last[1].method = "delete_episode"
    /\ last[1].sent.req = "call_tool" /\ last[1].sent.name = "delete_episode"
    /\ last[1].out.kind = "raise"
    /\ Cardinality({i \in DOMAIN log[session[1]] : log[session[1]][i].what = "call_tool"}) = 1

\* ------------------------------------------------------------------------
\* C8
\* ------------------------------------------------------------------------
\* C8: when the transport or the remote call fails, a tool operation (and
\* initialize) returns nothing and raises that very failure; get_status
\* alone returns a result instead.
C8_FailureReraisedUnchanged ==
    \A c \in Clients :
        last[c].remote \in RemoteErrors =>
            IF last[c].method = "get_status"
            THEN last[c].out.kind = "return"
            ELSE last[c].out = Raise(last[c].remote)

\* get_episodes failed with the server's error and raised it
C8_Witness ==
    /\ last[1].method = "get_episodes"
    /\ last[1].remote = Exc("McpError", "Internal error")
    /\ last[1].out = Raise(Exc("McpError", "Internal error"))

\* ------------------------------------------------------------------------
\* C9
\* ------------------------------------------------------------------------
\* the steps of request r that succeeded, read off the client and its pair
EnteredOk(r) == enters[r] = 1 /\ pairs[<<r, 1>>].session \in {"open", "closed"}
HandshakeOk(r) == EnteredOk(r) /\ pairs[<<r, 1>>].handshake
OperationOk(r) ==
    HandshakeOk(r) /\ last[r].method = HandlerMethod(route[r]) /\ last[r].out.kind = "return"
\* the failure request r ran into
FailureOf(r) ==
    IF enters[r] = 0 THEN NoneHasNoGet
    ELSE IF ~EnteredOk(r) THEN scopeExc[r]
    ELSE last[r].out.exc

\* C9: a request has a response exactly when its handler is done; the
\* response is 200 with the operation's result when scope entry, handshake
\* and operation all succeeded, and 500 with {error: message of the failure}
\* otherwise.
C9_OneResponsePerRequest ==
    \A r \in Requests :
        /\ (response[r] # NoResponse) <=> (pc[r] = "done")
        /\ pc[r] = "done" =>
              IF OperationOk(r)
              THEN response[r] = [status |-> 200, body |-> last[r].out.value]
              ELSE /\ response[r].status = 500
                   /\ FailureOf(r) # NoExc
                   /\ response[r].body = [t |-> "dict", error |-> FailureOf(r).msg]

\* /api/search_nodes answered 500 after the remote call failed
C9_Witness ==
    /\ pc[1] = "done" /\ route[1] = "/api/search_nodes"
    /\ last[1].method = "search_memory_nodes" /\ last[1].remote = Exc("McpError", "Internal error")
    /\ response[1] = [status |-> 500, body |-> [t |-> "dict", error |-> "Internal error"]]

\* ------------------------------------------------------------------------
\* C10
\* ------------------------------------------------------------------------
\* the order of a request's dealings with its pair
Rank(what) ==
    CASE what = "transport_enter" -> 1
      [] what = "session_enter" -> 2
      [] what = "initialize" -> 3
      [] what \in {"call_tool", "list_resources"} -> 4
      [] what = "session_exit" -> 5
      [] what = "transport_exit" -> 6

\* C10: a request opens its own pair, does the handshake, one remote
\* operation, closes the session and then the transport, in this order and
\* each at most once; no pair is touched by another request; and once the
\* response is returned nothing the request opened is still open.
C10_FreshPairTornDown ==
    \A r \in Requests :
        /\ \A p \in PairsOf(r) :
              /\ \A i \in DOMAIN log[p] : log[p][i].by = r
              /\ \A i, j \in DOMAIN log[p] : i < j => Rank(log[p][i].what) < Rank(log[p][j].what)
        /\ response[r] # NoResponse => \A p \in PairsOf(r) : Released(p)

\* ------------------------------------------------------------------------
\* C11
\* ------------------------------------------------------------------------
\* everything the model holds for request r and for its client
StateOf(r) ==
    <<pc[r], route[r], kwargs[r], held[r], response[r], loop[r],
      transport[r], session[r], client[r], scope[r], enters[r], calls[r], last[r], scopeExc[r],
      [p \in PairsOf(r) |-> <<pairs[p], log[p]>>]>>

\* C11: under every interleaving of two requests, each request has an
\* event loop of its own that has run no other request's handler, runs
\* while the handler runs and is closed once the request is done; its
\* session and transport are its own client's; and a step of one request
\* changes nothing of the other, its response included.
C11_RequestsShareNothing ==
    [][\A r \in Requests :
        /\ (pc'[r] # "idle") =>
              /\ loop'[r] # NoLoop
              /\ loops'[loop'[r]].ran = {r}
              /\ \A q \in Requests \ {r} : loop'[q] # loop'[r]
              /\ loops'[loop'[r]].state = IF pc'[r] = "done" THEN "closed" ELSE "running"
        /\ session'[r] \in PairsOf(r) \cup {NoPair}
        /\ client'[r] \in PairsOf(r) \cup {NoPair}
        /\ (pc'[r] # pc[r]) => \A q \in Requests \ {r} : StateOf(q)' = StateOf(q)]_vars

\* both requests in the middle of their handlers, each on its own running loop
C11_Witness ==
    /\ pc[1] = "operate" /\ pc[2] = "exit"
    /\ loop[1] # loop[2]
    /\ loops[loop[1]].state = "running" /\ loops[loop[2]].state = "running"
    /\ session[1] # session[2]

\* ------------------------------------------------------------------------
\* C12
\* ------------------------------------------------------------------------
\* the operation each route stands for
OwnOperation(rt) ==
    CASE rt = "/api/status" -> "get_status"
      [] rt = "/api/add_memory" -> "add_memory"
      [] rt = "/api/search_nodes" -> "search_memory_nodes"
      [] rt = "/api/search_facts" -> "search_memory_facts"
      [] rt = "/api/get_episodes" -> "get_episodes"
      [] OTHER -> "none"

\* the handler of request r has awaited its operation
Operated(r) == HandshakeOk(r) /\ pc[r] \in {"exit", "respond", "done"}

\* C12 as stated: each of add_memory, search_memory_nodes,
\* search_memory_facts, delete_entity_edge/delete_episode, get_episodes and
\* clear_graph is the operation of some route, and a request invokes no
\* operation but its route's own.
C12_SixOperationsMirrored ==
    /\ \A m \in {"add_memory", "search_memory_nodes", "search_memory_facts", "get_episodes", "clear_graph"} :
          \E rt \in Routes : HandlerMethod(rt) = m
    /\ \E rt \in Routes : HandlerMethod(rt) \in {"delete_entity_edge", "delete_episode"}
    /\ \A r \in Requests : last[r].method \in {"none", "initialize", OwnOperation(route[r])}

\* C12 as amended: the five routes /api/status, /api/add_memory,
\* /api/search_nodes, /api/search_facts and /api/get_episodes invoke
\* get_status, add_memory, search_memory_nodes, search_memory_facts and
\* get_episodes, each its own and no other; no request ever invokes
\* delete_entity_edge, delete_episode, get_entity_edge or clear_graph.
C12_RoutesInvokeOwnOperation ==
    \A r \in Requests :
        /\ last[r].method \in {"none", "initialize", OwnOperation(route[r])}
        /\ Operated(r) => last[r].method = OwnOperation(route[r])
        /\ last[r].sent.req = "call_tool" => last[r].sent.name = OwnOperation(route[r])
        /\ last[r].method \notin {"delete_entity_edge", "delete_episode", "get_entity_edge", "clear_graph"}

\* /api/get_episodes answered 200 after one get_episodes call
C12_Witness ==
    /\ pc[1] = "done" /\ route[1] = "/api/get_episodes"
    /\ last[1].sent.req = "call_tool" /\ last[1].sent.name = "get_episodes"
    /\ response[1].status = 200

\* ------------------------------------------------------------------------
\* C13
\* ------------------------------------------------------------------------
\* C13: leaving the scope closes the session and then the transport,
\* whatever the two close steps meet (the transport is closed also when
\* closing the session failed), and the caller observes exactly what the
\* body ended with: its failure if it raised, nothing if it did not, never
\* a failure of a close step.
C13_ExitClosesBothKeepsFailure ==
    [][\A c \in Clients :
        (scope[c] = "in" /\ scope'[c] = "out") =>
            /\ session[c] # NoPair /\ client[c] # NoPair
            /\ client[c] = session[c]
            /\ log'[session[c]] = log[session[c]] \o
                    <<Event(c, "session_exit"), Event(c, "transport_exit")>>
            /\ pairs'[session[c]].session = "closed"
            /\ pairs'[client[c]].transport = "closed"
            /\ scopeExc'[c] = closing'[c].exc]_vars

\* the body raised, closing the session failed, the transport was closed
\* all the same and the caller got the body's failure
C13_Witness ==
    /\ scope[1] = "out" /\ enters[1] = 1
    /\ closing[1].exc = BodyError
    /\ closing[1].failed = {"session"}
    /\ pairs[<<1, 1>>].session = "closed" /\ pairs[<<1, 1>>].transport = "closed"
    /\ scopeExc[1] = BodyError

\* ------------------------------------------------------------------------
\* C14
\* ------------------------------------------------------------------------
Responded(r) ==
    /\ pc[r] = "done"
    /\ response[r] # NoResponse
    /\ loops[loop[r]].state = "closed"

\* C14: a request whose awaited remote step never replies stays where it
\* is for ever: no step changes anything of it, it has no response, and the
\* transport and session it holds stay open. A response, once given, is the
\* request's only one. And a request none of whose awaited steps hangs
\* eventually returns a response and terminates.
C14_HungBlocksElseResponds ==
    /\ [][\A r \in Requests :
            /\ Hung(r) => StateOf(r)' = StateOf(r)
            /\ response[r] # NoResponse => response'[r] = response[r] /\ pc'[r] = "done"]_vars
    /\ [](\A r \in Requests :
            Hung(r) =>
                /\ response[r] = NoResponse
                /\ loops[loop[r]].state = "running"
                /\ pc[r] \in {HungAt("initialize"), HungAt("operate")} =>
                      /\ pairs[session[r]].session = "open"
                      /\ pairs[client[r]].transport = "open")
    /\ \A r \in Requests :
            ([]~Hung(r)) => ((pc[r] # "idle") ~> Responded(r))

\* request 1 hangs in its operation holding an open transport and session
\* and has no response, while request 2 has returned its response
C14_Witness ==
    /\ pc[1] = HungAt("operate")
    /\ pairs[<<1, 1>>].session = "open" /\ pairs[<<1, 1>>].transport = "open"
    /\ response[1] = NoResponse
    /\ Responded(2)

====
